---- MODULE Spec2Model ----
(***************************************************************************)
(* git-log-json.py: main().  The script resolves the branch to analyse,    *)
(* lists its commits, and walks them oldest first; for every path of       *)
(* commit.stats.files it asks git for the name-status of the path between  *)
(* previous_commit_sha and the commit, classifies it, fetches the line     *)
(* counts and writes one JSON object to the output file, the objects       *)
(* forming one JSON array.                                                 *)
(*                                                                         *)
(* The repository (GitPython and git) is the environment: what             *)
(* repo.references, repo.iter_commits, commit.stats.files and              *)
(* repo.git.diff return is drawn from the sets defined below.              *)
(***************************************************************************)
EXTENDS Integers, Sequences, FiniteSets, TLC

VARIABLES
    pc,                   \* position of main(): see the actions
    debug,                \* args['debug']
    args_branch,          \* args['branch'], NoBranch when the option is absent
    references,           \* repo.references, the names in iteration order
    active_branch,        \* repo.active_branch, NoBranch on a detached HEAD
    branch,               \* the branch resolved at lines 56-73
    exit_code,            \* the exit status the process ends with
    commits,              \* the list filled at lines 89-92, newest first
    parents,              \* commit.parents of the commit being walked, where the model holds them
    heads,                \* the commits walked so far that have no child yet, likewise
    stats,                \* commit.stats.files of every commit walked so far, in order
    trees,                \* the tree of every commit walked so far, where the model holds them
    i,                    \* position of the loop of line 100 in reversed(commits)
    files,                \* commit.stats.files of the commit being walked
    j,                    \* position of the loop of line 105 in files
    first_entry,          \* line 82
    previous_commit_sha,  \* lines 98 and 188
    status,               \* the local of lines 114-170
    lines_added,          \* the local of lines 125-174
    lines_removed,        \* the local of lines 125-178
    name_status,          \* what git diff --name-status returned last (line 114)
    numstat,              \* what git diff --numstat returned for the file, NotCalled without a call
    output,               \* what has been written to output_file, in order
    opened,               \* whether open(args['output_file'], 'w') has run
    record,               \* the JSON object of the last write of lines 182/184
    total_commits,        \* line 79
    total_revisions       \* line 80

\* What the run is given and never changes.
inputs == <<debug, args_branch, references, active_branch>>

\* The repository's history as far as the walk has met it.
history == <<parents, heads, stats, trees>>

\* The locals of the classification of one file.
classified == <<status, lines_added, lines_removed, name_status, numstat>>

vars == <<pc, inputs, branch, exit_code, commits, history, i, files, j, first_entry,
          previous_commit_sha, classified, output, opened, record, total_commits,
          total_revisions>>

----------------------------------------------------------------------------
(* Bounds of the environment. *)

\* The longest history repo.iter_commits returns.
MaxCommits == 3

\* The most paths commit.stats.files reports for one commit, where the model draws
\* the reports freely.
MaxFiles == 2

\* The number of names in the trees of the commits, where the model holds the trees.
MaxPaths == 1

----------------------------------------------------------------------------
(* Python values.  A local is unbound, None, an int or a str. *)

Unbound == [kind |-> "unbound", int |-> 0, str |-> ""]
PyNone == [kind |-> "None", int |-> 0, str |-> ""]
PyInt(n) == [kind |-> "int", int |-> n, str |-> ""]
PyStr(s) == [kind |-> "str", int |-> 0, str |-> s]

\* args['branch'] is None; repo.active_branch on a detached HEAD.
NoBranch == "<None>"

\* A str local that no line has assigned yet.
UnboundStr == "<unbound>"

\* Line 87.
EMPTY_TREE_SHA == "4b825dc642cb6eb9a060e54bf8d69288fbee4904"

TAB == "\t"
NL == "\n"

----------------------------------------------------------------------------
(* Branch resolution, lines 55-77. *)

\* The reference names a repository of the model may hold, and the names asked for.
RefNames == {"main", "master", "dev"}
Requested == {NoBranch, "main", "master", "dev", "topic"}

RECURSIVE InjectiveSeqs(_, _)
InjectiveSeqs(S, n) ==
    IF n = 0 THEN {<<>>}
    ELSE LET shorter == InjectiveSeqs(S, n - 1)
         IN  shorter \cup
             {Append(s, x) : <<s, x>> \in
                 {p \in shorter \X S : Len(p[1]) = n - 1
                                        /\ \A k \in 1..Len(p[1]) : p[1][k] # p[2]}}

RefLists == InjectiveSeqs(RefNames, Cardinality(RefNames))

\* The loop of lines 61-73 with the fallback to master taken for every requested
\* name, not for main alone.
RECURSIVE FindBranchMasterForAny(_, _, _)
FindBranchMasterForAny(wanted, refs, k) ==
    IF k > Len(refs) THEN NoBranch
    ELSE IF wanted = refs[k] THEN wanted
    ELSE IF "master" = refs[k] THEN "master"
    ELSE FindBranchMasterForAny(wanted, refs, k + 1)

\* The loop of lines 61-73 from position k on: the branch it leaves, NoBranch for None.
RECURSIVE FindBranch(_, _, _)
FindBranch(wanted, refs, k) ==
    IF k > Len(refs) THEN NoBranch
    ELSE IF wanted = "main"
         THEN IF "main" = refs[k] THEN "main"
              ELSE IF "master" = refs[k] THEN "master"
              ELSE FindBranch(wanted, refs, k + 1)
         ELSE IF wanted = refs[k] THEN wanted
              ELSE FindBranch(wanted, refs, k + 1)

----------------------------------------------------------------------------
(* The repository's history, as repo.iter_commits(rev=branch) lists it. *)

\* Commit hashes, oldest first.
ShaNames == <<"c1", "c2", "c3", "c4", "c5">>
Sha(k) == ShaNames[k]
ShaIndex(sha) == CHOOSE k \in 1..Len(ShaNames) : ShaNames[k] = sha

\* The names of the paths of the repository, in the order git lists them.
PathNames == <<"a", "b", "c", "d">>

\* The parents a commit of age k may have: none, one, or two (a merge), all older.
ParentSeqs(k) ==
    {<<>>} \cup {<<p>> : p \in 1..(k - 1)}
           \cup {<<p, q>> : <<p, q>> \in {pq \in (1..(k - 1)) \X (1..(k - 1)) : pq[1] # pq[2]}}

\* commit.parents of the k-th oldest commit, as hashes.
Parents(k) == {[m \in 1..Len(ps) |-> Sha(ps[m])] : ps \in ParentSeqs(k)}

Range(s) == {s[m] : m \in 1..Len(s)}

\* git rev-list lists a commit before its parents: newest first.
CommitList(n) == [k \in 1..n |-> [hexsha |-> Sha(n + 1 - k)]]

\* Every listed commit is reachable from the tip, the commit the branch names: the
\* tip is the only listed commit without a listed child.  hs are the commits walked
\* so far that have no child yet, rest the number of commits still to walk; each
\* of those can give a child to two of hs at most and is childless itself.
Reachable(hs, rest) == Cardinality(hs) <= 1 + rest

\* reversed(commits), line 100.
Reversed(s) == [k \in 1..Len(s) |-> s[Len(s) + 1 - k]]

----------------------------------------------------------------------------
(* What git answers.  An answer is the text git prints, as the sequence of  *)
(* its pieces, TAB and NL being pieces of their own.                        *)

\* No call of git diff --numstat was made for this file.
NotCalled == <<"<not called>">>

\* The two calls of git diff for one file: the --name-status call raises, or
\* prints ns and a --numstat call of the same comparison prints num.
Answers(ns, num) == [raises |-> FALSE, ns |-> ns, num |-> num]
GitCommandError == [raises |-> TRUE, ns |-> <<>>, num |-> <<>>]

\* commit.stats.files (line 103), the trees not held: any of these lists of paths.
StatsFiles == {SubSeq(PathNames, 1, n) : n \in 0..MaxFiles}

\* git diff --numstat base..commit -- file for the comparison whose name-status
\* was ns, the trees not held; "-" stands for the counts of a binary file.
GitDiffNumstat(ns, file) ==
    LET binary == <<"-", TAB, "-", TAB, file>>
    IN  IF ns = <<>> THEN {<<>>}
        ELSE IF Len(ns) > 3 /\ ns[1] = "A"
             THEN {<<"3", TAB, "0", TAB, file, NL, "0", TAB, "3", TAB, file \o "/x">>}
        ELSE IF ns[1] = "A" THEN {<<"3", TAB, "0", TAB, file>>, binary}
        ELSE IF ns[1] = "M" THEN {<<"3", TAB, "1", TAB, file>>, binary}
        ELSE IF ns[1] = "D" THEN {<<"0", TAB, "3", TAB, file>>, binary}
        ELSE {<<"0", TAB, "0", TAB, file>>}

\* git diff --name-status base..commit -- file (line 114), the trees not held.
\* Against the empty tree every path of the commit is an addition.  Against a
\* commit the path may be added, modified, deleted or changed in type; the
\* pathspec may match nothing (the path is the same on both sides), and it may
\* match a directory of the old side together with the file that replaces it,
\* which git pairs as a rename or lists as two entries.
GitDiffNameStatus(base, file) ==
    LET added == <<"A", TAB, file>>
    IN  IF base = EMPTY_TREE_SHA
        THEN {added}
        ELSE {added,
              <<"A", TAB, file, NL, "D", TAB, file \o "/x">>,
              <<>>,
              <<"M", TAB, file>>,
              <<"D", TAB, file>>,
              <<"T", TAB, file>>,
              <<"R", "100", TAB, file \o "/x", TAB, file>>}

\* Lines 114-152 for one file, the trees not held: what the two calls may give.
GitDiff(base, file) ==
    {GitCommandError} \cup
    UNION {{Answers(ns, num) : num \in GitDiffNumstat(ns, file)} :
              ns \in GitDiffNameStatus(base, file)}

----------------------------------------------------------------------------
(* The trees, where the model holds them.  A tree gives every name an      *)
(* entry: nothing, a file, or a directory holding the one file x.  A blob  *)
(* is named by the commit that first held it: equal blobs, equal content.  *)

Absent == [kind |-> "absent", blob |-> 0, binary |-> FALSE]
File(k, bin) == [kind |-> "file", blob |-> k, binary |-> bin]
Dir(k) == [kind |-> "dir", blob |-> k, binary |-> FALSE]

EmptyTree == [n \in 1..MaxPaths |-> Absent]

\* The tree of a commit-like endpoint of a diff.
TreeOf(sha) == IF sha = EMPTY_TREE_SHA THEN EmptyTree ELSE trees[ShaIndex(sha)]

FilePath(n) == PathNames[n]
DirPath(n) == PathNames[n] \o "/x"
PathOf(e, n) == IF e.kind = "dir" THEN DirPath(n) ELSE FilePath(n)

\* The entries commit k may give a name whose entry is f in its first parent (or
\* in the empty tree) and q in the commit walked before it: either of those, a
\* new text or binary file, a new directory, nothing, or the file of the
\* directory f moved up to the name.
Entries(f, q, k) ==
    {f, q, File(k, FALSE), File(k, TRUE), Dir(k), Absent}
    \cup (IF f.kind = "dir" THEN {File(f.blob, f.binary)} ELSE {})

Trees(ft, qt, k) == {t \in [1..MaxPaths -> UNION {Entries(ft[n], qt[n], k) : n \in 1..MaxPaths}] :
                        \A n \in 1..MaxPaths : t[n] \in Entries(ft[n], qt[n], k)}

\* The blob an entry puts at the file path, at the directory path: 0 for none.
FileBlob(e) == IF e.kind = "file" THEN e.blob ELSE 0
DirBlob(e) == IF e.kind = "dir" THEN e.blob ELSE 0

\* commit.stats.files: git diff --numstat --no-renames of the first parent (the
\* empty tree for a root) and the commit; every path whose blob differs, in order.
RECURSIVE StatsKeys(_, _, _)
StatsKeys(ft, ct, n) ==
    IF n > MaxPaths THEN <<>>
    ELSE (IF FileBlob(ft[n]) # FileBlob(ct[n]) THEN <<FilePath(n)>> ELSE <<>>)
         \o (IF DirBlob(ft[n]) # DirBlob(ct[n]) THEN <<DirPath(n)>> ELSE <<>>)
         \o StatsKeys(ft, ct, n + 1)

\* The name a key of the stats belongs to.
NameOf(key) == CHOOSE n \in 1..MaxPaths : key \in {FilePath(n), DirPath(n)}

\* One entry of a diff, as --name-status and --numstat print it.
Change(st, score, paths, added, removed) ==
    [status |-> st, score |-> score, paths |-> paths, added |-> added, removed |-> removed]

Added(c, n) ==
    IF c.binary THEN Change("A", "", <<PathOf(c, n)>>, "-", "-")
    ELSE Change("A", "", <<PathOf(c, n)>>, "3", "0")

Deleted(q, n) ==
    IF q.binary THEN Change("D", "", <<PathOf(q, n)>>, "-", "-")
    ELSE Change("D", "", <<PathOf(q, n)>>, "0", "3")

Modified(q, c, n) ==
    IF q.binary \/ c.binary THEN Change("M", "", <<PathOf(c, n)>>, "-", "-")
    ELSE Change("M", "", <<PathOf(c, n)>>, "3", "1")

Renamed(q, c, n) == Change("R", "100", <<PathOf(q, n), PathOf(c, n)>>, "0", "0")

\* git diff old..new -- key at name n, old entry q and new entry c: the pathspec
\* of a file path matches the directory of that name too, the pathspec of the
\* directory's file matches that file alone; equal blobs at two paths are paired
\* as a rename; the entries come in the order of their paths.
Changes(q, c, n, key) ==
    LET old == q.kind = "dir" \/ (q.kind = "file" /\ key = FilePath(n))
        new == c.kind = "dir" \/ (c.kind = "file" /\ key = FilePath(n))
    IN  IF ~old /\ ~new THEN <<>>
        ELSE IF ~old THEN <<Added(c, n)>>
        ELSE IF ~new THEN <<Deleted(q, n)>>
        ELSE IF q.kind = c.kind
             THEN IF q.blob = c.blob THEN <<>> ELSE <<Modified(q, c, n)>>
        ELSE IF q.blob = c.blob THEN <<Renamed(q, c, n)>>
        ELSE IF c.kind = "file" THEN <<Added(c, n), Deleted(q, n)>>
        ELSE <<Deleted(q, n), Added(c, n)>>

\* Lines of text joined by NL.
RECURSIVE JoinLines(_)
JoinLines(ls) ==
    IF ls = <<>> THEN <<>>
    ELSE IF Len(ls) = 1 THEN ls[1]
    ELSE ls[1] \o <<NL>> \o JoinLines(Tail(ls))

NameStatusLine(ch) ==
    (IF ch.score = "" THEN <<ch.status>> ELSE <<ch.status, ch.score>>)
    \o (IF Len(ch.paths) = 1 THEN <<TAB, ch.paths[1]>>
        ELSE <<TAB, ch.paths[1], TAB, ch.paths[2]>>)

NumstatLine(ch) ==
    <<ch.added, TAB, ch.removed, TAB>>
    \o (IF Len(ch.paths) = 1 THEN <<ch.paths[1]>>
        ELSE <<ch.paths[1] \o " => " \o ch.paths[2]>>)

\* Lines 114-152 for one file, the trees held: what the two calls give.
RepoDiff(base, sha, file) ==
    LET n  == NameOf(file)
        ch == Changes(TreeOf(base)[n], TreeOf(sha)[n], n, file)
    IN  {Answers(JoinLines([m \in 1..Len(ch) |-> NameStatusLine(ch[m])]),
                 JoinLines([m \in 1..Len(ch) |-> NumstatLine(ch[m])]))}

----------------------------------------------------------------------------
(* The pure steps of lines 114-184. *)

\* str.split('\t'): the pieces between the TABs, joined; one field at least.
RECURSIVE SplitFrom(_, _, _, _)
SplitFrom(out, k, cur, acc) ==
    IF k > Len(out) THEN Append(acc, cur)
    ELSE IF out[k] = TAB THEN SplitFrom(out, k + 1, "", Append(acc, cur))
    ELSE SplitFrom(out, k + 1, cur \o out[k], acc)

Split(out) == SplitFrom(out, 1, "", <<>>)

\* lines_added, lines_removed, dummy = <numstat>.split('\t'): three fields or ValueError.
Unpack(out) ==
    LET f == Split(out)
    IN  IF Len(f) = 3
        THEN [raises |-> FALSE, lines_added |-> PyStr(f[1]), lines_removed |-> PyStr(f[2])]
        ELSE [raises |-> TRUE, lines_added |-> Unbound, lines_removed |-> Unbound]

Outcome(st, la, lr, called) ==
    [raises |-> FALSE, status |-> st, lines_added |-> la, lines_removed |-> lr,
     numstat_called |-> called]

\* A branch of lines 131-152: the label, then the counts of the numstat call.
Counted(label, num) ==
    LET u == Unpack(num)
    IN  [raises |-> u.raises, status |-> label, lines_added |-> u.lines_added,
         lines_removed |-> u.lines_removed, numstat_called |-> TRUE]

\* Lines 118-172 for the status token tok and the numstat answer num; la and lr
\* are the locals as the previous file left them.
Classify(tok, num, la, lr) ==
    IF tok = ""
    THEN LET u == Unpack(num)
         IN  IF u.raises THEN Outcome("Added", PyNone, PyNone, TRUE)
             ELSE Outcome("Added", u.lines_added, u.lines_removed, TRUE)
    ELSE IF tok = "A" THEN Counted("Added", num)
    ELSE IF tok = "C" THEN Counted("Copied", num)
    ELSE IF tok = "D" THEN Counted("Deleted", num)
    ELSE IF tok = "M" THEN Counted("Modified", num)
    ELSE IF tok = "R" THEN Outcome("Renamed", PyInt(0), PyInt(0), FALSE)
    ELSE IF tok = "T" THEN Outcome("Type (mode) changed", PyInt(0), PyInt(0), FALSE)
    ELSE IF tok = "U" THEN Outcome("Unmerged", PyInt(0), PyInt(0), FALSE)
    ELSE IF tok = "X" THEN Outcome("Unknown", PyNone, PyNone, FALSE)
    ELSE IF tok = "B" THEN Outcome("Broken pairing", PyNone, PyNone, FALSE)
    ELSE Outcome(tok, la, lr, FALSE)

\* int() of a decimal string.
Digits == <<"0", "1", "2", "3", "4", "5", "6", "7", "8", "9">>
IsDecimal(s) == \E d \in 1..Len(Digits) : Digits[d] = s
ParseInt(s) == (CHOOSE d \in 1..Len(Digits) : Digits[d] = s) - 1

\* Lines 173-180: x = int(x), the value kept when int() raises.
Coerce(x) ==
    IF x.kind = "str" /\ IsDecimal(x.str) THEN PyInt(ParseInt(x.str))
    ELSE x

\* json.dumps of a count: a number, null or a string.
Json(x) ==
    IF x.kind = "int" THEN [type |-> "number", number |-> x.int, string |-> ""]
    ELSE IF x.kind = "None" THEN [type |-> "null", number |-> 0, string |-> ""]
    ELSE [type |-> "string", number |-> 0, string |-> x.str]

\* The object of lines 182/184, the keys the classification decides.
JsonRecord(sha, file, st, la, lr) ==
    [revision |-> sha, modified |-> file, status |-> st,
     lines_added |-> Json(la), lines_removed |-> Json(lr)]

NoRecord == JsonRecord("", "", "", PyNone, PyNone)

\* One write to output_file: a piece of text, or the JSON object of a record.
Text(s) == [kind |-> "text", text |-> s, revision |-> "", modified |-> ""]
RecordWrite(sha, file) == [kind |-> "record", text |-> "", revision |-> sha, modified |-> file]

----------------------------------------------------------------------------
(* The state when main() reaches line 40: arguments parsed, repository open. *)

Locals ==
    /\ pc = "start"
    /\ branch = NoBranch
    /\ exit_code = 0
    /\ commits = <<>>
    /\ parents = <<>>
    /\ heads = {}
    /\ stats = <<>>
    /\ trees = <<>>
    /\ i = 0
    /\ files = <<>>
    /\ j = 0
    /\ first_entry = TRUE
    /\ previous_commit_sha = UnboundStr
    /\ status = UnboundStr
    /\ lines_added = Unbound
    /\ lines_removed = Unbound
    /\ name_status = <<>>
    /\ numstat = NotCalled
    /\ output = <<>>
    /\ opened = FALSE
    /\ record = NoRecord
    /\ total_commits = 0
    /\ total_revisions = 0

\* Run without --branch in a repository whose only reference, master, is checked out.
Init ==
    /\ debug \in BOOLEAN
    /\ args_branch = NoBranch
    /\ references = <<"master">>
    /\ active_branch = "master"
    /\ Locals

\* Run on any repository of the model, with or without --branch.
InitBranch ==
    /\ debug \in BOOLEAN
    /\ args_branch \in Requested
    /\ references \in RefLists
    /\ active_branch \in {NoBranch} \cup Range(references)
    /\ Locals

----------------------------------------------------------------------------
(* The steps of main(). *)

\* An uncaught exception: the with block closes the file, Python exits with 1.
Raise ==
    /\ pc' = "aborted"
    /\ exit_code' = 1

\* Lines 40-42: repo.active_branch raises TypeError on a detached HEAD.  Lines
\* 44-53 print warnings and assign nothing.
DebugInfo ==
    /\ pc = "start"
    /\ IF debug /\ active_branch = NoBranch
       THEN Raise
       ELSE pc' = "resolve" /\ UNCHANGED exit_code
    /\ UNCHANGED <<inputs, branch, commits, history, i, files, j, first_entry,
                   previous_commit_sha, classified, output, opened, record,
                   total_commits, total_revisions>>

\* Lines 56-73: the branch the run analyses, NoBranch when the loop finds none.
Resolved(wanted, refs, active) ==
    IF wanted = NoBranch THEN active ELSE FindBranch(wanted, refs, 1)

\* Lines 55-77.
ResolveBranch ==
    /\ pc = "resolve"
    /\ LET b == Resolved(args_branch, references, active_branch)
       IN  IF args_branch = NoBranch /\ active_branch = NoBranch
           THEN Raise /\ UNCHANGED branch
           ELSE IF b = NoBranch
           THEN pc' = "exit" /\ exit_code' = 3 /\ branch' = b
           ELSE pc' = "list" /\ branch' = b /\ UNCHANGED exit_code
    /\ UNCHANGED <<inputs, commits, history, i, files, j, first_entry,
                   previous_commit_sha, classified, output, opened, record,
                   total_commits, total_revisions>>

\* Lines 89-92.
ListCommits ==
    /\ pc = "list"
    /\ \E n \in 1..MaxCommits : commits' = CommitList(n)
    /\ pc' = "open"
    /\ UNCHANGED <<inputs, branch, exit_code, history, i, files, j, first_entry,
                   previous_commit_sha, classified, output, opened, record,
                   total_commits, total_revisions>>

\* The newline debug mode writes after a piece of output.
Newline(dbg) == IF dbg THEN <<Text(NL)>> ELSE <<>>

\* Lines 94-98.
OpenOutput ==
    /\ pc = "open"
    /\ opened' = TRUE
    /\ output' = <<Text("[")>> \o Newline(debug)
    /\ previous_commit_sha' = EMPTY_TREE_SHA
    /\ i' = 1
    /\ pc' = "commit"
    /\ UNCHANGED <<inputs, branch, exit_code, commits, history, files, j, first_entry,
                   classified, record, total_commits, total_revisions>>

\* The commit the loop of line 100 is at.
Commit == Reversed(commits)[i]

\* Lines 100-104, the repository's part where the model holds it: the commit met
\* has parents ps and tree t.
MeetCommit(ps, t) ==
    /\ parents' = ps
    /\ heads' = (heads \ Range(ps)) \cup {Commit.hexsha}
    /\ Reachable(heads', Len(commits) - i)
    /\ trees' = Append(trees, t)

\* Lines 100-104: the next commit and its changed paths fs.
WalkCommit(fs) ==
    /\ pc = "commit"
    /\ i <= Len(commits)
    /\ stats' = Append(stats, fs)
    /\ files' = fs
    /\ j' = 1
    /\ pc' = "file"
    /\ UNCHANGED <<inputs, branch, exit_code, commits, i, first_entry,
                   previous_commit_sha, classified, output, opened, record,
                   total_commits, total_revisions>>

\* Lines 100-104, parents and trees not held (the code reads neither): any report.
BeginCommit ==
    /\ \E fs \in StatsFiles : WalkCommit(fs)
    /\ UNCHANGED <<parents, heads, trees>>

\* Lines 100-104, parents and trees held: the report is the diff against the
\* first parent.
BeginCommitRepo ==
    \E ps \in Parents(i) :
        LET ft == IF ps = <<>> THEN EmptyTree ELSE TreeOf(ps[1])
            qt == IF i <= 1 THEN EmptyTree ELSE trees[i - 1]
        IN  \E t \in Trees(ft, qt, i) : WalkCommit(StatsKeys(ft, t, 1)) /\ MeetCommit(ps, t)

\* Lines 106-109 without the test of first_entry: a comma before every record.
SeparatorBeforeEvery(first, dbg) == <<Text(",")>> \o Newline(dbg)

\* Lines 106-109: what is written before a record.
Separator(first, dbg) == IF first THEN <<>> ELSE <<Text(",")>> \o Newline(dbg)

\* Lines 105-109.
WriteSeparator ==
    /\ pc = "file"
    /\ j <= Len(files)
    /\ output' = output \o Separator(first_entry, debug)
    /\ pc' = "classify"
    /\ UNCHANGED <<inputs, branch, exit_code, commits, history, i, files, j,
                   first_entry, previous_commit_sha, classified, opened, record,
                   total_commits, total_revisions>>

\* The loop of line 105 stepping over the path that follows a record.
NextFileSkipsOne(k) == k + 2

\* The position of the loop of line 105 after a record.
NextFile(k) == k + 1

\* Lines 113-186 for the answers a of git: classify files[j], fetch its counts,
\* write its record.
Process(a) ==
    IF a.raises
    THEN /\ Raise
         /\ numstat' = NotCalled
         /\ UNCHANGED <<status, lines_added, lines_removed, name_status,
                        output, record, total_revisions, first_entry, j>>
    ELSE LET c  == Classify(Split(a.ns)[1], a.num, lines_added, lines_removed)
             la == Coerce(c.lines_added)
             lr == Coerce(c.lines_removed)
         IN  /\ name_status' = a.ns
             /\ numstat' = IF c.numstat_called THEN a.num ELSE NotCalled
             /\ status' = c.status
             /\ IF c.raises \/ la.kind = "unbound" \/ lr.kind = "unbound"
                THEN /\ Raise
                     /\ UNCHANGED <<lines_added, lines_removed, output, record,
                                    total_revisions, first_entry, j>>
                ELSE /\ lines_added' = la
                     /\ lines_removed' = lr
                     /\ output' = Append(output, RecordWrite(Commit.hexsha, files[j]))
                     /\ record' = JsonRecord(Commit.hexsha, files[j], c.status, la, lr)
                     /\ total_revisions' = total_revisions + 1
                     /\ first_entry' = FALSE
                     /\ j' = NextFile(j)
                     /\ pc' = "file"
                     /\ UNCHANGED exit_code

\* Lines 113-186, the trees not held.
ProcessFile ==
    /\ pc = "classify"
    /\ \E a \in GitDiff(previous_commit_sha, files[j]) : Process(a)
    /\ UNCHANGED <<inputs, branch, commits, history, i, files, previous_commit_sha,
                   opened, total_commits>>

\* Lines 113-186, the trees held.
ProcessFileRepo ==
    /\ pc = "classify"
    /\ \E a \in RepoDiff(previous_commit_sha, Commit.hexsha, files[j]) : Process(a)
    /\ UNCHANGED <<inputs, branch, commits, history, i, files, previous_commit_sha,
                   opened, total_commits>>

\* Line 188: the baseline of the next commit.
NextBaseline(commit) == commit.hexsha

\* Lines 187-188.
EndCommit ==
    /\ pc = "file"
    /\ j > Len(files)
    /\ total_commits' = total_commits + 1
    /\ previous_commit_sha' = NextBaseline(Commit)
    /\ i' = i + 1
    /\ pc' = "commit"
    /\ UNCHANGED <<inputs, branch, exit_code, commits, history, files, j, first_entry,
                   classified, output, opened, record, total_revisions>>

\* Lines 189-193.
CloseOutput ==
    /\ pc = "commit"
    /\ i > Len(commits)
    /\ output' = output \o Newline(debug) \o <<Text("]")>> \o Newline(debug)
    /\ pc' = "done"
    /\ UNCHANGED <<inputs, branch, exit_code, commits, history, i, files, j,
                   first_entry, previous_commit_sha, classified, opened, record,
                   total_commits, total_revisions>>

\* The run, the reports and git's answers drawn from all that some repository
\* may give.
Next ==
    \/ DebugInfo
    \/ ResolveBranch
    \/ ListCommits
    \/ OpenOutput
    \/ BeginCommit
    \/ WriteSeparator
    \/ ProcessFile
    \/ EndCommit
    \/ CloseOutput

Spec == Init /\ [][Next]_vars

\* The run on a repository whose commits, parents and trees the model holds, the
\* reports and git's answers computed from them.
NextRepo ==
    \/ DebugInfo
    \/ ResolveBranch
    \/ ListCommits
    \/ OpenOutput
    \/ BeginCommitRepo
    \/ WriteSeparator
    \/ ProcessFileRepo
    \/ EndCommit
    \/ CloseOutput

SpecRepo == Init /\ [][NextRepo]_vars

\* The run up to the opening of the output file, for every --branch.
NextBranch ==
    \/ DebugInfo
    \/ ResolveBranch
    \/ ListCommits
    \/ OpenOutput

SpecBranch == InitBranch /\ [][NextBranch]_vars

----------------------------------------------------------------------------
(* Vocabulary of the properties. *)

\* The record of files[j - 1] of the commit at i has just been written: record,
\* status, name_status and numstat are those of that file, parents those of its commit.
Wrote == pc = "file" /\ j > 1

\* The comparison of files[j] against previous_commit_sha is about to be made.
Comparing == pc = "classify"

\* The baseline the commit at i is to be compared against.
FirstParentOrEmptyTree == IF parents = <<>> THEN EMPTY_TREE_SHA ELSE parents[1]

IsRecord(t) == t.kind = "record"
IsNewline(t) == t = Text(NL)
NotNewline(t) == ~IsNewline(t)

\* The number of record writes of out for path file of commit sha.
RecordsFor(out, sha, file) ==
    Cardinality({k \in 1..Len(out) : out[k] = RecordWrite(sha, file)})

\* The number of times path file is reported in the list fs.
Reported(fs, file) == Cardinality({m \in 1..Len(fs) : fs[m] = file})

\* The records of the commits walked, in the order the walk meets them.
RECURSIVE ExpectedRecords(_)
ExpectedRecords(k) ==
    IF k = 0 THEN <<>>
    ELSE ExpectedRecords(k - 1) \o [m \in 1..Len(stats[k]) |-> RecordWrite(Sha(k), stats[k][m])]

\* The elements of rs with one comma between each two consecutive ones.
RECURSIVE CommaSeparated(_)
CommaSeparated(rs) ==
    IF Len(rs) <= 1 THEN rs
    ELSE <<rs[1], Text(",")>> \o CommaSeparated(Tail(rs))

ExpectedArray == <<Text("[")>> \o CommaSeparated(ExpectedRecords(Len(stats))) \o <<Text("]")>>

\* The last thing written that is not a newline of debug mode.
LastWritten ==
    LET w == SelectSeq(output, NotNewline)
    IN  w[Len(w)]

Number(n) == [type |-> "number", number |-> n, string |-> ""]
Null == [type |-> "null", number |-> 0, string |-> ""]

NumberOrNull(v) == v.type = "null" \/ (v.type = "number" /\ v.number >= 0)

----------------------------------------------------------------------------
(* The claims. *)

\* C1: when the run completes, every commit walked has, for each path, as many
\* records in the output as commit.stats.files reports the path: one per reported
\* path, none for any other, and so none for a commit that reports no path.
C1_OneRecordPerReportedPath ==
    pc = "done" =>
        /\ Len(stats) = Len(commits)
        /\ \A k \in 1..Len(commits) : \A p \in 1..Len(PathNames) :
              RecordsFor(output, Sha(k), PathNames[p]) = Reported(stats[k], PathNames[p])
        /\ \A k \in 1..Len(output) :
              IsRecord(output[k]) => \E c \in 1..Len(commits) : output[k].revision = Sha(c)

\* C1 witness: a completed run over a commit with no path and a commit with two.
C1_Witness ==
    /\ pc = "done"
    /\ \E k \in 1..Len(stats) : Len(stats[k]) = 0
    /\ \E k \in 1..Len(stats) : Len(stats[k]) >= 2

\* C2: whenever a path of a commit is compared, the baseline of the comparison is
\* the commit's first parent, or the empty tree when the commit has no parent.
C2_BaselineIsFirstParent ==
    Comparing => previous_commit_sha = FirstParentOrEmptyTree

\* C3: every record written for a commit without parents has status "Added".
C3_RootRecordsAdded ==
    (Wrote /\ parents = <<>>) => record.status = "Added"

\* C4: a record written for a path git reports as renamed (R and a similarity
\* score) has status "Renamed" and counts 0 and 0.
C4_RenamedRecord ==
    (Wrote /\ name_status # <<>> /\ name_status[1] = "R") =>
        /\ record.status = "Renamed"
        /\ record.lines_added = Number(0)
        /\ record.lines_removed = Number(0)

\* C5: when the run completes the output is "[", the records in the order the walk
\* produced them with one comma between consecutive ones, and "]"; debug mode adds
\* newlines and nothing else, compact mode adds nothing.
C5_OutputIsArray ==
    pc = "done" =>
        /\ SelectSeq(output, NotNewline) = ExpectedArray
        /\ ~debug => output = ExpectedArray

\* C5 witness: a completed compact run that wrote three records or more.
C5_Witness ==
    /\ pc = "done"
    /\ ~debug
    /\ total_revisions >= 3

\* C6: the counts of every record written are non-negative numbers or null, and no
\* run aborts on a numstat answer that does not hold three fields.
C6_CountsNumberOrNull ==
    /\ record # NoRecord =>
          NumberOrNull(record.lines_added) /\ NumberOrNull(record.lines_removed)
    /\ ~(pc = "aborted" /\ numstat # NotCalled /\ Unpack(numstat).raises)

\* C7: no record is written for a path whose comparison against a commit (not the
\* empty tree) yields no entry.
C7_EmptyTypeOnlyOnRoot ==
    (Wrote /\ name_status = <<>>) => previous_commit_sha = EMPTY_TREE_SHA

\* The run was asked for a branch that is not the name of any reference.
UnknownBranch == args_branch # NoBranch /\ args_branch \notin Range(references)

\* --branch main in a repository that has a reference master.
MainForMaster == args_branch = "main" /\ "master" \in Range(references)

\* Nothing has been listed and the output file has not been opened.
NothingDone == commits = <<>> /\ ~opened /\ output = <<>>

C9_NoTrailingComma ==
    (pc \in {"done", "aborted"} /\ opened) => LastWritten # Text(",")

\* C10: the counts of every record written are those a branch of lines 118-172
\* assigned for this file, from this file's answers alone.
C10_CountsAssignedAfresh ==
    Wrote =>
        LET c == Classify(Split(name_status)[1], numstat, Unbound, Unbound)
        IN  /\ c.lines_added.kind # "unbound"
            /\ c.lines_removed.kind # "unbound"
            /\ record.lines_added = Json(Coerce(c.lines_added))
            /\ record.lines_removed = Json(Coerce(c.lines_removed))

====
